---- MODULE Spec2Model ----
(***************************************************************************)
(* Model of hockey-hardware-V1.py: the NCAA score display loop.            *)
(*                                                                         *)
(* The program is a single thread: main() initialises GPIO, checks SPI,    *)
(* then loops fetch -> parse -> display -> sleep.  The state machine below *)
(* has one action per blocking operation of main() and of the __main__     *)
(* block, plus Interrupt, the delivery of SIGINT (KeyboardInterrupt) while *)
(* the operation at the current location is executing.                     *)
(*                                                                         *)
(* Python values (the JSON feed, None, the parsed tuples) are tagged       *)
(* records: [t |-> "null"], [t |-> "int", i |-> n], [t |-> "str", s |-> x],*)
(* [t |-> "list", l |-> seq], [t |-> "dict", d |-> function].  A raised    *)
(* exception inside an expression is the value [t |-> "exc", e |-> name].  *)
(*                                                                         *)
(* print() and time.sleep() are taken never to raise anything but          *)
(* KeyboardInterrupt.                                                      *)
(***************************************************************************)
EXTENDS Integers, Sequences, FiniteSets, TLC

(***************************************************************************)
(* Bounds of the model.                                                    *)
(***************************************************************************)
\* longest 'games' list the modelled HTTP response carries
MaxGames == 4
\* longest 'games' list of well-formed games only
MaxLongFeed == 7

(***************************************************************************)
(* Python values.                                                          *)
(***************************************************************************)
PyNone == [t |-> "null"]
JInt(n) == [t |-> "int", i |-> n]
JStr(x) == [t |-> "str", s |-> x]
JList(q) == [t |-> "list", l |-> q]
JDict(f) == [t |-> "dict", d |-> f]
JBool(b) == [t |-> "bool", b |-> b]
JTuple(q) == [t |-> "tuple", q |-> q]
Exc(name) == [t |-> "exc", e |-> name]
IsExc(v) == v.t = "exc"
EmptyDict == JDict([k \in {} |-> PyNone])

\* bool(v): Python truthiness of a value
Truthy(v) ==
    CASE v.t = "null" -> FALSE
      [] v.t = "bool" -> v.b
      [] v.t = "int"  -> v.i # 0
      [] v.t = "str"  -> Len(v.s) > 0
      [] v.t = "list" -> Len(v.l) > 0
      [] v.t = "dict" -> DOMAIN v.d # {}

\* sub in s for two Python strings: substring test
StrContains(s, sub) ==
    \E i \in 1..(Len(s) - Len(sub) + 1) : SubSeq(s, i, i + Len(sub) - 1) = sub

\* key in v (the `in` operator with a str on the left): a bool, or TypeError
\* when v is not a container
PyIn(key, v) ==
    CASE v.t = "dict" -> JBool(key \in DOMAIN v.d)
      [] v.t = "list" -> JBool(\E i \in 1..Len(v.l) : v.l[i] = JStr(key))
      [] v.t = "str"  -> JBool(StrContains(v.s, key))
      [] OTHER        -> Exc("TypeError")

\* v[key] with a str key: only a dict can be indexed by a str
PyIndex(v, key) ==
    IF IsExc(v) THEN v
    ELSE IF v.t = "dict"
         THEN (IF key \in DOMAIN v.d THEN v.d[key] ELSE Exc("KeyError"))
         ELSE Exc("TypeError")

\* len(v)
PyLen(v) ==
    CASE v.t = "exc"  -> v
      [] v.t = "list" -> JInt(Len(v.l))
      [] v.t = "str"  -> JInt(Len(v.s))
      [] v.t = "dict" -> JInt(Cardinality(DOMAIN v.d))
      [] OTHER        -> Exc("TypeError")

\* v[0]
PyFirst(v) ==
    CASE v.t = "exc"  -> v
      [] v.t = "list" -> (IF Len(v.l) > 0 THEN v.l[1] ELSE Exc("IndexError"))
      [] v.t = "str"  -> (IF Len(v.s) > 0 THEN JStr(SubSeq(v.s, 1, 1)) ELSE Exc("IndexError"))
      [] v.t = "dict" -> Exc("KeyError")
      [] OTHER        -> Exc("TypeError")

\* v[key] in place of v.get(key, dflt): KeyError for an absent key
PyGetStrict(v, key, dflt) ==
    IF IsExc(v) THEN v
    ELSE IF v.t = "dict"
         THEN (IF key \in DOMAIN v.d THEN v.d[key] ELSE Exc("KeyError"))
         ELSE Exc("AttributeError")

\* v.get(key, dflt): dict.get, AttributeError on anything that is not a dict;
\* an exception raised earlier in the expression propagates
PyGet(v, key, dflt) ==
    IF IsExc(v) THEN v
    ELSE IF v.t = "dict"
         THEN (IF key \in DOMAIN v.d THEN v.d[key] ELSE dflt)
         ELSE Exc("AttributeError")

\* the orders in which `for` can visit the keys S of a dict: a dict is visited
\* in insertion order, which the function that stands for it does not record
KeyOrders(S) ==
    {q \in [1..Cardinality(S) -> S] : \A i, j \in 1..Cardinality(S) : q[i] = q[j] => i = j}

\* the sequences of items `for game in v` can visit (v is a list, str or dict
\* here): one for a list or str, one per key order for a dict
PyIter(v) ==
    CASE v.t = "list" -> {v.l}
      [] v.t = "str"  -> {[i \in 1..Len(v.s) |-> JStr(SubSeq(v.s, i, i))]}
      [] v.t = "dict" -> {[i \in 1..Cardinality(DOMAIN v.d) |-> JStr(q[i])]
                            : q \in KeyOrders(DOMAIN v.d)}
      [] OTHER        -> {<<>>}

(***************************************************************************)
(* fetch_ncaa_scores: the pure part.                                       *)
(***************************************************************************)
\* a fetch that reports a failed probe like a failed request
FallbackIsNone == PyNone

\* the canned dataset returned when the connectivity probe fails
Fallback ==
    JDict([games |-> JList(<<
        JDict([away_team   |-> JStr("Test Away"),
               away_points |-> JInt(21),
               home_team   |-> JStr("Test Home"),
               home_points |-> JInt(14),
               status      |-> JStr("FINAL")]) >>)])

\* a response body that is not JSON
NotJson == [t |-> "notjson"]

\* r.raise_for_status(): TRUE when it raises HTTPError (requests raises for
\* client errors 4xx and server errors 5xx only)
RaiseForStatus(status) == 400 <= status /\ status < 600

\* the debug block of the try body: Exc(..) when it raises, else PyNone
DebugPrint(data) ==
    LET has == PyIn("games", data) IN
    IF IsExc(has) THEN has
    ELSE IF ~has.b THEN PyNone
    ELSE LET n == PyLen(PyIndex(data, "games")) IN
         IF IsExc(n) THEN n
         ELSE IF n.i > 0
              THEN (LET first == PyFirst(PyIndex(data, "games")) IN
                    IF IsExc(first) THEN first ELSE PyNone)
              ELSE PyNone

\* the try/except around requests.get: the value returned, or Exc(..) for an
\* exception that is not a RequestException and so leaves the function.
\* got is the outcome of requests.get; jsonErrCaught says whether the
\* installed requests raises a RequestException from r.json() (2.27 and
\* later) or a plain ValueError.
FetchAfterGet(got, jsonErrCaught) ==
    IF got.kind \in {"ConnectionError", "Timeout"} THEN PyNone
    ELSE IF RaiseForStatus(got.status) THEN PyNone
    ELSE IF got.body.t = "notjson"
         THEN (IF jsonErrCaught THEN PyNone ELSE Exc("ValueError"))
    ELSE LET dbg == DebugPrint(got.body) IN
         IF IsExc(dbg) THEN dbg ELSE got.body

(***************************************************************************)
(* parse_ncaa_scores.                                                      *)
(***************************************************************************)
\* the body of the per-game try: the tuple appended, or the exception raised
ParseGame(game) ==
    LET away_team  == PyGet(PyGet(PyGet(game, "teams", EmptyDict), "away", EmptyDict),
                            "name", JStr("Unknown"))
        home_team  == PyGet(PyGet(PyGet(game, "teams", EmptyDict), "home", EmptyDict),
                            "name", JStr("Unknown"))
        away_score == PyGet(PyGet(PyGet(game, "teams", EmptyDict), "away", EmptyDict),
                            "score", JInt(0))
        home_score == PyGet(PyGet(PyGet(game, "teams", EmptyDict), "home", EmptyDict),
                            "score", JInt(0))
        status     == PyGet(PyGet(game, "status", EmptyDict), "type", JStr("Unknown"))
    IN  CASE IsExc(away_team)  -> away_team
          [] IsExc(home_team)  -> home_team
          [] IsExc(away_score) -> away_score
          [] IsExc(home_score) -> home_score
          [] IsExc(status)     -> status
          [] OTHER -> JTuple(<<away_team, away_score, home_team, home_score, status>>)

\* a loop that gives up at the first game it cannot parse
RECURSIVE ParseLoopAborts(_, _)
ParseLoopAborts(games, scores) ==
    IF games = <<>> THEN scores
    ELSE LET r == ParseGame(Head(games)) IN
         IF IsExc(r) THEN scores
         ELSE ParseLoopAborts(Tail(games), Append(scores, r))

\* the for loop: games still to visit, scores collected so far.
\* `except Exception: ... continue` drops the game and goes on.
RECURSIVE ParseLoop(_, _)
ParseLoop(games, scores) ==
    IF games = <<>> THEN scores
    ELSE LET r == ParseGame(Head(games)) IN
         IF IsExc(r) THEN ParseLoop(Tail(games), scores)
         ELSE ParseLoop(Tail(games), Append(scores, r))

\* a parser that hands the missing value on instead of an empty list
parse_returns_none(data) ==
    IF ~Truthy(data) THEN {PyNone}
    ELSE LET has == PyIn("games", data) IN
         IF IsExc(has) THEN {has}
         ELSE IF ~has.b THEN {PyNone}
         ELSE {JList(ParseLoop(it, <<>>)) : it \in PyIter(PyIndex(data, "games"))}

\* parse_ncaa_scores(data): what the call can return (a JList of tuples) or
\* raise (Exc(..)).  One outcome, except that a dict-valued 'games' has one
\* per order in which its keys can be visited.
parse_ncaa_scores(data) ==
    IF ~Truthy(data) THEN {JList(<<>>)}
    ELSE LET has == PyIn("games", data) IN
         IF IsExc(has) THEN {has}
         ELSE IF ~has.b THEN {JList(<<>>)}
         ELSE LET n == PyLen(PyIndex(data, "games")) IN
              IF IsExc(n) THEN {n}
              ELSE {JList(ParseLoop(it, <<>>)) : it \in PyIter(PyIndex(data, "games"))}

(***************************************************************************)
(* display_scores_on_lcd.                                                  *)
(***************************************************************************)
width == 240
height == 240
line_spacing == 20
OriginX == 10
OriginY == 10
NameCut == 10

Min(a, b) == IF a < b THEN a ELSE b

\* what looking up a slice in a dict raises: the slice is unhashable before
\* Python 3.12 (TypeError) and a key the dict does not hold since (KeyError)
DictSliceErrors == {Exc("TypeError"), Exc("KeyError")}

\* a cut to the first five characters or items
Slice5(v) ==
    CASE v.t = "str"  -> {JStr(SubSeq(v.s, 1, Min(5, Len(v.s))))}
      [] v.t = "list" -> {JList(SubSeq(v.l, 1, Min(5, Len(v.l))))}
      [] v.t = "dict" -> DictSliceErrors
      [] OTHER        -> {Exc("TypeError")}

\* v[:10], the set of its possible outcomes: the first ten characters of a
\* str, the first ten items of a list, TypeError for a value that is not
\* subscriptable (int, None, bool), and for a dict the error of the
\* interpreter that runs the script
Slice10(v) ==
    CASE v.t = "str"  -> {JStr(SubSeq(v.s, 1, Min(NameCut, Len(v.s))))}
      [] v.t = "list" -> {JList(SubSeq(v.l, 1, Min(NameCut, Len(v.l))))}
      [] v.t = "dict" -> DictSliceErrors
      [] OTHER        -> {Exc("TypeError")}

\* repr(v) of a JSON value: a str in single quotes (the modelled strings hold
\* no quote, backslash or control character), a list as its items' reprs
\* between brackets, a dict of at most one key between braces
RECURSIVE PyRepr(_)
RECURSIVE ReprItems(_)
PyRepr(v) ==
    CASE v.t = "str"  -> "'" \o v.s \o "'"
      [] v.t = "int"  -> ToString(v.i)
      [] v.t = "null" -> "None"
      [] v.t = "bool" -> (IF v.b THEN "True" ELSE "False")
      [] v.t = "list" -> "[" \o ReprItems(v.l) \o "]"
      [] v.t = "dict" /\ DOMAIN v.d = {} -> "{}"
      [] v.t = "dict" /\ Cardinality(DOMAIN v.d) = 1 ->
           LET k == CHOOSE key \in DOMAIN v.d : TRUE
           IN  "{'" \o k \o "': " \o PyRepr(v.d[k]) \o "}"
\* the reprs of the items of a list, joined by ", "
ReprItems(q) ==
    IF q = <<>> THEN ""
    ELSE IF Len(q) = 1 THEN PyRepr(q[1])
    ELSE PyRepr(q[1]) \o ", " \o ReprItems(Tail(q))

\* str(v) as an f-string formats it: a str as it is, everything else as its
\* repr
PyStr(v) == IF v.t = "str" THEN v.s ELSE PyRepr(v)

\* a renderer whose cursor never leaves the origin
TextAtOrigin(y, line) == [x |-> OriginX, y |-> OriginY, text |-> line]

TextAt(y, line) == [x |-> OriginX, y |-> y, text |-> line]

\* the for loop over scores, the set of its possible outcomes: the lines drawn
\* on the image so far, and the exception that ended the loop ("none" if it
\* ran to its end or to the break).  home_team[:10] is evaluated after the
\* away line has been drawn.
RECURSIVE DrawLoop(_, _, _)
DrawLoop(scores, y, lines) ==
    IF scores = <<>> THEN {[lines |-> lines, exc |-> "none"]}
    ELSE LET g == Head(scores).q IN
         UNION {
           IF IsExc(away) THEN {[lines |-> lines, exc |-> away.e]}
           ELSE LET l1 == Append(lines, TextAt(y, PyStr(away) \o " " \o PyStr(g[2]))) IN
                UNION {
                  IF IsExc(home) THEN {[lines |-> l1, exc |-> home.e]}
                  ELSE LET l2 == Append(l1, TextAt(y + line_spacing,
                                                   PyStr(home) \o " " \o PyStr(g[4])))
                           y2 == y + line_spacing + line_spacing
                       IN  IF y2 > height - line_spacing
                           THEN {[lines |-> l2, exc |-> "none"]}
                           ELSE DrawLoop(Tail(scores), y2, l2)
                  : home \in Slice10(g[3])}
           : away \in Slice10(g[1])}

\* a renderer without the branch for an empty list
DrawScoresNoBranch(scores) == DrawLoop(scores.l, OriginY, <<>>)

\* the text drawn on the blank image for a list of scores, the set of its
\* possible outcomes.  The image, the draw object and the cursor x, y are
\* locals of the call (lines 128-144) and the module keeps no layout in a
\* global: no state of the program carries a layout from one call to the next.
DrawScores(scores) ==
    IF ~Truthy(scores)
    THEN {[lines |-> <<TextAt(OriginY, "No games found.")>>, exc |-> "none"]}
    ELSE DrawLoop(scores.l, OriginY, <<>>)

\* the steps of the display that talk to the device and can fail
DeviceSteps == {"ctor", "Init", "clear", "ShowImage"}

\* n calls of draw.text
TextOps(n) == [i \in 1..n |-> "text"]

\* a display that swallows a failure of the device and returns
display_swallows_errors(scores, failAt) ==
    CASE failAt = "ctor"  -> {[ops |-> <<>>, lines |-> <<>>, exc |-> "none"]}
      [] failAt = "Init"  -> {[ops |-> <<"Init">>, lines |-> <<>>, exc |-> "none"]}
      [] failAt = "clear" -> {[ops |-> <<"Init", "clear">>, lines |-> <<>>, exc |-> "none"]}
      [] OTHER ->
           {[ops |-> <<"Init", "clear">> \o TextOps(Len(d.lines))
                     \o (IF d.exc # "none" THEN <<>>
                         ELSE IF failAt = "ShowImage" THEN <<"ShowImage">>
                         ELSE <<"ShowImage", "sleep2">>),
             lines |-> d.lines, exc |-> "none"] : d \in DrawScores(scores)}

\* one call of display_scores_on_lcd, the set of its possible outcomes: the
\* calls made in order (the device operations, "text" for each draw.text,
\* "sleep2" for the dwell), the lines drawn, and the exception re-raised to
\* the caller ("none" when the call returns).  failAt names the device step
\* that raises, if any; "ctor" is LCD_1inch3.LCD_1inch3(), which makes no call
\* on a device object.
display_scores_on_lcd(scores, failAt) ==
    CASE failAt = "ctor"  -> {[ops |-> <<>>, lines |-> <<>>, exc |-> "DeviceError"]}
      [] failAt = "Init"  -> {[ops |-> <<"Init">>, lines |-> <<>>, exc |-> "DeviceError"]}
      [] failAt = "clear" -> {[ops |-> <<"Init", "clear">>, lines |-> <<>>, exc |-> "DeviceError"]}
      [] OTHER ->
           {IF d.exc # "none"
            THEN [ops |-> <<"Init", "clear">> \o TextOps(Len(d.lines)),
                  lines |-> d.lines, exc |-> d.exc]
            ELSE IF failAt = "ShowImage"
            THEN [ops |-> <<"Init", "clear">> \o TextOps(Len(d.lines)) \o <<"ShowImage">>,
                  lines |-> d.lines, exc |-> "DeviceError"]
            ELSE [ops |-> <<"Init", "clear">> \o TextOps(Len(d.lines))
                          \o <<"ShowImage", "sleep2">>,
                  lines |-> d.lines, exc |-> "none"]
            : d \in DrawScores(scores)}

(***************************************************************************)
(* Inputs: what the network can answer.                                    *)
(***************************************************************************)
GameA ==
    JDict([teams  |-> JDict([away |-> JDict([name |-> JStr("Bruins"), score |-> JInt(3)]),
                             home |-> JDict([name |-> JStr("Rangers"), score |-> JInt(2)])]),
           status |-> JDict([type |-> JStr("final")])])
GameB ==
    JDict([teams  |-> JDict([away |-> JDict([name |-> JStr("Massachusetts"), score |-> JInt(0)]),
                             home |-> JDict([name |-> JStr("Northeastern"), score |-> JInt(5)])]),
           status |-> JDict([type |-> JStr("live")])])
\* team names of exactly ten characters
GameC ==
    JDict([teams  |-> JDict([away |-> JDict([name |-> JStr("Providence"), score |-> JInt(1)]),
                             home |-> JDict([name |-> JStr("Quinnipiac"), score |-> JInt(4)])]),
           status |-> JDict([type |-> JStr("pre")])])
\* a home name that is a JSON number: the parser keeps it, the renderer cannot
\* slice it
GameNumName ==
    JDict([teams  |-> JDict([away |-> JDict([name |-> JStr("Bruins"), score |-> JInt(3)]),
                             home |-> JDict([name |-> JInt(12), score |-> JInt(2)])]),
           status |-> JDict([type |-> JStr("final")])])
\* team names that are JSON arrays: the renderer slices them like a str and
\* draws what is left as a list
GameListName ==
    JDict([teams  |-> JDict([away |-> JDict([name  |-> JList(<<JStr("a"), JStr("b")>>),
                                             score |-> JInt(3)]),
                             home |-> JDict([name  |-> JList([i \in 1..12 |-> JInt(i)]),
                                             score |-> JInt(2)])]),
           status |-> JDict([type |-> JStr("final")])])
\* an away name that is a JSON object: the parser keeps it, and slicing it
\* raises what the interpreter raises for a slice used as a dict key
GameDictName ==
    JDict([teams  |-> JDict([away |-> JDict([name  |-> JDict([short |-> JStr("BOS")]),
                                             score |-> JInt(3)]),
                             home |-> JDict([name |-> JStr("Rangers"), score |-> JInt(2)])]),
           status |-> JDict([type |-> JStr("final")])])
\* a game with no field at all: every .get falls back to its default
GameBare == EmptyDict
\* a game in the flat shape of the fallback dataset: 'status' is a str
GameFlat ==
    JDict([away_team   |-> JStr("Test Away"),
           away_points |-> JInt(21),
           home_team   |-> JStr("Test Home"),
           home_points |-> JInt(14),
           status      |-> JStr("FINAL")])
\* a game entry that is not a dict
GameNotDict == JInt(7)

\* a game whose 'teams' is not a dict
GameBadTeams == JDict([teams |-> JStr("TBD"), status |-> JDict([type |-> JStr("pre")])])

GameKinds == {GameA, GameB, GameBare, GameFlat, GameNotDict, GameBadTeams}

\* feeds with more games than the canvas holds, all of them games the parser
\* keeps
LongFeeds == UNION {[1..k -> {GameA, GameB}] : k \in (MaxGames + 1)..MaxLongFeed}

\* GameA with one of its fields absent
SideAway == JDict([name |-> JStr("Bruins"), score |-> JInt(3)])
SideHome == JDict([name |-> JStr("Rangers"), score |-> JInt(2)])
StatusFinal == JDict([type |-> JStr("final")])
GameNoTeams == JDict([status |-> StatusFinal])
GameNoAway == JDict([teams |-> JDict([home |-> SideHome]), status |-> StatusFinal])
GameNoHome == JDict([teams |-> JDict([away |-> SideAway]), status |-> StatusFinal])
GameNoAwayName ==
    JDict([teams  |-> JDict([away |-> JDict([score |-> JInt(3)]), home |-> SideHome]),
           status |-> StatusFinal])
GameNoHomeName ==
    JDict([teams  |-> JDict([away |-> SideAway, home |-> JDict([score |-> JInt(2)])]),
           status |-> StatusFinal])
GameNoAwayScore ==
    JDict([teams  |-> JDict([away |-> JDict([name |-> JStr("Bruins")]), home |-> SideHome]),
           status |-> StatusFinal])
GameNoHomeScore ==
    JDict([teams  |-> JDict([away |-> SideAway, home |-> JDict([name |-> JStr("Rangers")])]),
           status |-> StatusFinal])
GameNoStatus == JDict([teams |-> JDict([away |-> SideAway, home |-> SideHome])])
GameNoType ==
    JDict([teams |-> JDict([away |-> SideAway, home |-> SideHome]), status |-> EmptyDict])

OneFieldAbsent ==
    {GameNoTeams, GameNoAway, GameNoHome, GameNoAwayName, GameNoHomeName,
     GameNoAwayScore, GameNoHomeScore, GameNoStatus, GameNoType}

\* games that come alone in a feed
LoneGames == {GameC, GameNumName, GameListName, GameDictName} \cup OneFieldAbsent

Feeds ==
    UNION {[1..k -> GameKinds] : k \in 0..MaxGames}
    \cup LongFeeds
    \cup {<<g>> : g \in LoneGames}

\* response bodies: not JSON, JSON that is not a dict, dicts without 'games',
\* dicts whose 'games' is not a list, and feeds
Bodies ==
    {NotJson, PyNone, JInt(5), JBool(TRUE), JStr("x"), JStr("games"),
     JList(<<>>), JList(<<JInt(1)>>), JList(<<JStr("games")>>),
     EmptyDict, JDict([dates |-> JList(<<>>)]),
     JDict([games |-> JInt(3)]), JDict([games |-> PyNone]),
     JDict([games |-> JStr("ab")]), JDict([games |-> EmptyDict]),
     JDict([games |-> JDict([a |-> JInt(1)])]),
     JDict([games |-> JDict([a |-> JInt(2), b |-> JInt(1)])])}
    \cup {JDict([games |-> JList(f)]) : f \in Feeds}

\* final HTTP statuses of a response: success, a 3xx that is not followed
\* (no Location header), client error, server error
Statuses == {200, 300, 404, 503}

\* outcomes of requests.get(url, timeout=5)
GetOutcomes ==
    {[kind |-> k, status |-> 0, body |-> NotJson] : k \in {"ConnectionError", "Timeout"}}
    \cup {[kind |-> "response", status |-> s, body |-> b] : s \in Statuses, b \in Bodies}

(***************************************************************************)
(* State.                                                                  *)
(***************************************************************************)
VARIABLES
    pc,            \* the operation main() or the __main__ block is executing
    exitCode,      \* process exit status, NoExit while running
    cause,         \* the last thing raised towards the top: interrupt, spi, exception
    pendingKI,     \* a KeyboardInterrupt is propagating through main's finally
    cleanupCalls,  \* calls of GPIO.cleanup() so far
    spiChecks,     \* calls of check_spi() so far
    spiResult,     \* what check_spi() returned: "unknown", "ok", "fail"
    kiAt,          \* the locations at which a SIGINT has been delivered
    ioEver,        \* kinds of network/parse/display operations performed so far
    lastSleep,     \* the delay that preceded this iteration: 0, 60 or 10
    \* values of the current iteration (cleared when the next one starts)
    iterTrace,     \* the steps called in this iteration, in order
    probes,        \* check_internet() calls made by this iteration's fetch
    probe,         \* result of the probe: "unknown", "up", "down"
    gets,          \* requests.get calls made by this iteration's fetch
    got,           \* kind and status of what requests.get produced
    data,          \* value returned by fetch_ncaa_scores
    parseArg,      \* argument parse_ncaa_scores was called with
    scores,        \* value returned by parse_ncaa_scores
    renderArg,     \* argument display_scores_on_lcd was called with
    devOps,        \* calls made by this iteration's display call, in order
    drawn,         \* text lines drawn by this iteration's display call
    excStep,       \* step whose exception the loop caught: "none", "fetch", ...
    excName        \* name of that exception

ctl == <<pc, exitCode, cause, pendingKI, cleanupCalls, spiChecks, spiResult, kiAt, ioEver, lastSleep>>
iter == <<iterTrace, probes, probe, gets, got, data, parseArg, scores, renderArg,
          devOps, drawn, excStep, excName>>
vars == <<ctl, iter>>

NoExit == -1
\* exit status of an uncaught KeyboardInterrupt: 1 before Python 3.8, death by
\* SIGINT (130 in a shell) since
UncaughtKICodes == {1, 130}

Unset == [t |-> "unset"]
NoGet == [kind |-> "none", status |-> 0]

\* locations inside `while True`
IterSteps == {"fetch_probe", "fetch_get", "parse", "display"}
LoopPcs == IterSteps \cup {"sleep60", "sleep10"}
\* locations of main() before the outer try
StartupPcs == {"gpio_init", "check_spi", "spi_exit", "spi_print"}
\* locations of the handlers of the __main__ block
TopHandlerPcs == {"mainki_print", "mainki_cleanup", "mainexc_print", "mainexc_cleanup"}

IterInit ==
    /\ iterTrace = <<>>
    /\ probes = 0
    /\ probe = "unknown"
    /\ gets = 0
    /\ got = NoGet
    /\ data = Unset
    /\ parseArg = Unset
    /\ scores = Unset
    /\ renderArg = Unset
    /\ devOps = <<>>
    /\ drawn = <<>>
    /\ excStep = "none"
    /\ excName = "none"

Init ==
    /\ pc = "gpio_init"
    /\ exitCode = NoExit
    /\ cause = "none"
    /\ pendingKI = FALSE
    /\ cleanupCalls = 0
    /\ spiChecks = 0
    /\ spiResult = "unknown"
    /\ kiAt = {}
    /\ ioEver = {}
    /\ lastSleep = 0
    /\ IterInit

\* a loop whose handler lets the exception out of main
CatchInLoopEscapes(step, name) ==
    /\ excStep' = step
    /\ excName' = name
    /\ pc' = "finally_print"

\* `except Exception` of the loop: print, then the 10 second sleep
CatchInLoop(step, name) ==
    /\ excStep' = step
    /\ excName' = name
    /\ pc' = "sleep10"

(***************************************************************************)
(* main(): startup.                                                        *)
(***************************************************************************)
\* GPIO.setwarnings(False); GPIO.setmode(GPIO.BCM).  An exception here is
\* outside every try of main and reaches `except Exception` of __main__.
GpioInit ==
    /\ pc = "gpio_init"
    /\ \E raises \in BOOLEAN :
         IF raises
         THEN /\ pc' = "mainexc_print"
              /\ cause' = "exception"
         ELSE /\ pc' = "check_spi"
              /\ UNCHANGED cause
    /\ UNCHANGED <<exitCode, pendingKI, cleanupCalls, spiChecks, spiResult, kiAt, ioEver, lastSleep>>
    /\ UNCHANGED iter

\* a startup that goes on into the loop although the SPI check failed
SpiFailedGoesOn ==
    /\ pc' = "spi_print"
    /\ UNCHANGED exitCode
    /\ cause' = "spi"

\* sys.exit(1) after a failed SPI check.  SystemExit is raised before the try
\* of main and is not an Exception, so no handler of __main__ catches it.
SpiFailed ==
    /\ pc' = "exited"
    /\ exitCode' = 1
    /\ cause' = "spi"

\* `if not check_spi():` the call returns True or False.  sys.exit(1) is a
\* statement of its own: a SIGINT can be delivered after the call has returned
\* False and before sys.exit(1) runs.
CheckSpi ==
    /\ pc = "check_spi"
    /\ spiChecks' = spiChecks + 1
    /\ \E ok \in BOOLEAN :
         IF ok
         THEN /\ spiResult' = "ok"
              /\ pc' = "spi_print"
         ELSE /\ spiResult' = "fail"
              /\ pc' = "spi_exit"
    /\ UNCHANGED <<exitCode, cause, pendingKI, cleanupCalls, kiAt, ioEver, lastSleep>>
    /\ UNCHANGED iter

\* sys.exit(1) in the body of `if not check_spi():`
SpiExit ==
    /\ pc = "spi_exit"
    /\ SpiFailed
    /\ UNCHANGED <<pendingKI, cleanupCalls, spiChecks, spiResult, kiAt, ioEver, lastSleep>>
    /\ UNCHANGED iter

\* print("Starting score display loop..."), the last statement before the try
\* of main
SpiPrint ==
    /\ pc = "spi_print"
    /\ pc' = "fetch_probe"
    /\ UNCHANGED <<exitCode, cause, pendingKI, cleanupCalls, spiChecks, spiResult, kiAt, ioEver, lastSleep>>
    /\ UNCHANGED iter

(***************************************************************************)
(* main(): one iteration of `while True`.                                  *)
(***************************************************************************)
\* data = fetch_ncaa_scores(), first half: `if not check_internet()`.
\* check_internet turns every OSError of the connection attempt into False.
FetchProbe ==
    /\ pc = "fetch_probe"
    /\ iterTrace' = Append(iterTrace, "fetch")
    /\ probes' = probes + 1
    /\ ioEver' = ioEver \cup {"probe"}
    /\ \E up \in BOOLEAN :
         IF up
         THEN /\ probe' = "up"
              /\ pc' = "fetch_get"
              /\ UNCHANGED data
         ELSE /\ probe' = "down"
              /\ data' = Fallback
              /\ pc' = "parse"
    /\ UNCHANGED <<exitCode, cause, pendingKI, cleanupCalls, spiChecks, spiResult, kiAt, lastSleep>>
    /\ UNCHANGED <<gets, got, parseArg, scores, renderArg, devOps, drawn, excStep, excName>>

\* fetch_ncaa_scores(), second half: the try around requests.get
FetchGet ==
    /\ pc = "fetch_get"
    /\ gets' = gets + 1
    /\ ioEver' = ioEver \cup {"get"}
    /\ \E g \in GetOutcomes, jsonErrCaught \in BOOLEAN :
         LET r == FetchAfterGet(g, jsonErrCaught) IN
         /\ got' = [kind |-> g.kind, status |-> g.status]
         /\ IF IsExc(r)
            THEN /\ CatchInLoop("fetch", r.e)
                 /\ UNCHANGED data
            ELSE /\ data' = r
                 /\ pc' = "parse"
                 /\ UNCHANGED <<excStep, excName>>
    /\ UNCHANGED <<exitCode, cause, pendingKI, cleanupCalls, spiChecks, spiResult, kiAt, lastSleep>>
    /\ UNCHANGED <<iterTrace, probes, probe, parseArg, scores, renderArg, devOps, drawn>>

\* scores = parse_ncaa_scores(data)
Parse ==
    /\ pc = "parse"
    /\ iterTrace' = Append(iterTrace, "parse")
    /\ ioEver' = ioEver \cup {"parse"}
    /\ parseArg' = data
    /\ \E r \in parse_ncaa_scores(data) :
         IF IsExc(r)
         THEN /\ CatchInLoop("parse", r.e)
              /\ UNCHANGED scores
         ELSE /\ scores' = r
              /\ pc' = "display"
              /\ UNCHANGED <<excStep, excName>>
    /\ UNCHANGED <<exitCode, cause, pendingKI, cleanupCalls, spiChecks, spiResult, kiAt, lastSleep>>
    /\ UNCHANGED <<probes, probe, gets, got, data, renderArg, devOps, drawn>>

\* a loop that starts the next fetch right after a successful display
AfterDisplayNoDwell == pc' = "fetch_probe"

\* after display_scores_on_lcd returned: print, then time.sleep(60)
AfterDisplay == pc' = "sleep60"

\* what display_scores_on_lcd(scores) can do, with each device step that can
\* fail failing or not
DisplayOutcomes ==
    UNION {display_scores_on_lcd(scores, failAt) : failAt \in DeviceSteps \cup {"none"}}

\* display_scores_on_lcd(scores); on success the 60 second sleep follows
Display ==
    /\ pc = "display"
    /\ iterTrace' = Append(iterTrace, "render")
    /\ ioEver' = ioEver \cup {"display"}
    /\ renderArg' = scores
    /\ \E r \in DisplayOutcomes :
         /\ devOps' = r.ops
         /\ drawn' = r.lines
         /\ IF r.exc # "none"
            THEN CatchInLoop("render", r.exc)
            ELSE /\ AfterDisplay
                 /\ UNCHANGED <<excStep, excName>>
    /\ UNCHANGED <<exitCode, cause, pendingKI, cleanupCalls, spiChecks, spiResult, kiAt, lastSleep>>
    /\ UNCHANGED <<probes, probe, gets, got, data, parseArg, scores>>

\* the values of the iteration are dead once it is over
ClearIter ==
    /\ iterTrace' = <<>>
    /\ probes' = 0
    /\ probe' = "unknown"
    /\ gets' = 0
    /\ got' = NoGet
    /\ data' = Unset
    /\ parseArg' = Unset
    /\ scores' = Unset
    /\ renderArg' = Unset
    /\ devOps' = <<>>
    /\ drawn' = <<>>
    /\ excStep' = "none"
    /\ excName' = "none"

\* back to the top of `while True` after a delay
NextIteration(delay) ==
    /\ pc' = "fetch_probe"
    /\ lastSleep' = delay
    /\ ClearIter
    /\ UNCHANGED <<exitCode, cause, pendingKI, cleanupCalls, spiChecks, spiResult, kiAt, ioEver>>

\* time.sleep(60) returns, back to the top of the loop
Sleep60 ==
    /\ pc = "sleep60"
    /\ NextIteration(60)

\* time.sleep(10) in `except Exception` returns, back to the top of the loop
Sleep10 ==
    /\ pc = "sleep10"
    /\ NextIteration(10)

(***************************************************************************)
(* main(): the outer `except KeyboardInterrupt` and `finally`.             *)
(***************************************************************************)
\* print("\nProgram interrupted by user") in main
KiPrint ==
    /\ pc = "ki_print"
    /\ pc' = "finally_print"
    /\ UNCHANGED <<exitCode, cause, pendingKI, cleanupCalls, spiChecks, spiResult, kiAt, ioEver, lastSleep>>
    /\ UNCHANGED iter

\* print("Cleaning up GPIO...")
FinallyPrint ==
    /\ pc = "finally_print"
    /\ pc' = "finally_cleanup"
    /\ UNCHANGED <<exitCode, cause, pendingKI, cleanupCalls, spiChecks, spiResult, kiAt, ioEver, lastSleep>>
    /\ UNCHANGED iter

\* GPIO.cleanup() in finally returns.  With no exception pending main() returns
\* and the script ends with status 0; a pending KeyboardInterrupt goes on to
\* the __main__ block.
FinallyCleanup ==
    /\ pc = "finally_cleanup"
    /\ cleanupCalls' = cleanupCalls + 1
    /\ IF pendingKI
       THEN /\ pc' = "mainki_print"
            /\ pendingKI' = FALSE
            /\ UNCHANGED exitCode
       ELSE /\ pc' = "exited"
            /\ exitCode' = 0
            /\ UNCHANGED pendingKI
    /\ UNCHANGED <<cause, spiChecks, spiResult, kiAt, ioEver, lastSleep>>
    /\ UNCHANGED iter

(***************************************************************************)
(* The __main__ block.                                                     *)
(***************************************************************************)
\* except KeyboardInterrupt: print(...)
MainKiPrint ==
    /\ pc = "mainki_print"
    /\ pc' = "mainki_cleanup"
    /\ UNCHANGED <<exitCode, cause, pendingKI, cleanupCalls, spiChecks, spiResult, kiAt, ioEver, lastSleep>>
    /\ UNCHANGED iter

\* except KeyboardInterrupt: GPIO.cleanup(); sys.exit(0)
MainKiCleanup ==
    /\ pc = "mainki_cleanup"
    /\ cleanupCalls' = cleanupCalls + 1
    /\ pc' = "exited"
    /\ exitCode' = 0
    /\ UNCHANGED <<cause, pendingKI, spiChecks, spiResult, kiAt, ioEver, lastSleep>>
    /\ UNCHANGED iter

\* except Exception: print(...)
MainExcPrint ==
    /\ pc = "mainexc_print"
    /\ pc' = "mainexc_cleanup"
    /\ UNCHANGED <<exitCode, cause, pendingKI, cleanupCalls, spiChecks, spiResult, kiAt, ioEver, lastSleep>>
    /\ UNCHANGED iter

\* except Exception: GPIO.cleanup(); sys.exit(1)
MainExcCleanup ==
    /\ pc = "mainexc_cleanup"
    /\ cleanupCalls' = cleanupCalls + 1
    /\ pc' = "exited"
    /\ exitCode' = 1
    /\ UNCHANGED <<cause, pendingKI, spiChecks, spiResult, kiAt, ioEver, lastSleep>>
    /\ UNCHANGED iter

(***************************************************************************)
(* SIGINT: KeyboardInterrupt raised in the operation at pc.                *)
(***************************************************************************)
\* the network, parse or display operation under way at a location of the loop
IoAt == [fetch_probe |-> "probe", fetch_get |-> "get", parse |-> "parse", display |-> "display"]

\* GPIO.cleanup() had been called when the interrupt came
InCleanup == pc \in {"finally_cleanup", "mainki_cleanup", "mainexc_cleanup"}

Interrupt ==
    /\ pc # "exited"
    /\ cause' = "interrupt"
    /\ kiAt' = kiAt \cup {pc}
    /\ cleanupCalls' = IF InCleanup THEN cleanupCalls + 1 ELSE cleanupCalls
    /\ CASE pc \in StartupPcs ->
              \* outside the try of main: straight to __main__
              /\ pc' = "mainki_print"
              /\ UNCHANGED <<exitCode, pendingKI>>
         [] pc \in LoopPcs ->
              \* inner `except KeyboardInterrupt: raise`, then the outer handler
              /\ pc' = "ki_print"
              /\ UNCHANGED <<exitCode, pendingKI>>
              /\ ClearIter
         [] pc = "ki_print" ->
              \* raised inside the outer handler: finally runs, then it propagates
              /\ pc' = "finally_print"
              /\ pendingKI' = TRUE
              /\ UNCHANGED exitCode
         [] pc \in {"finally_print", "finally_cleanup"} ->
              \* raised inside finally: leaves main
              /\ pc' = "mainki_print"
              /\ pendingKI' = FALSE
              /\ UNCHANGED exitCode
         [] pc \in TopHandlerPcs ->
              \* raised inside a handler of __main__: nothing catches it
              /\ pc' = "exited"
              /\ exitCode' \in UncaughtKICodes
              /\ UNCHANGED pendingKI
    /\ pc \notin LoopPcs => UNCHANGED iter
    \* the call that was under way has been made; in the loop the interrupt can
    \* also come before the call, during the print or the assignment ahead of it
    /\ spiChecks' = IF pc = "check_spi" THEN spiChecks + 1 ELSE spiChecks
    /\ \E made \in BOOLEAN :
         ioEver' = IF made /\ pc \in DOMAIN IoAt THEN ioEver \cup {IoAt[pc]} ELSE ioEver
    /\ UNCHANGED <<spiResult, lastSleep>>

Next ==
    \/ GpioInit
    \/ CheckSpi
    \/ SpiExit
    \/ SpiPrint
    \/ FetchProbe
    \/ FetchGet
    \/ Parse
    \/ Display
    \/ Sleep60
    \/ Sleep10
    \/ KiPrint
    \/ FinallyPrint
    \/ FinallyCleanup
    \/ MainKiPrint
    \/ MainKiCleanup
    \/ MainExcPrint
    \/ MainExcCleanup
    \/ Interrupt

Spec == Init /\ [][Next]_vars

TypeOK ==
    /\ pc \in StartupPcs \cup LoopPcs \cup TopHandlerPcs
              \cup {"ki_print", "finally_print", "finally_cleanup", "exited"}
    /\ exitCode \in {NoExit, 0, 1, 130}
    /\ cleanupCalls \in 0..3
    /\ spiChecks \in 0..1

(***************************************************************************)
(* Properties.                                                             *)
(***************************************************************************)
Exited == pc = "exited"

\* C1: on every path by which the process terminates after main() started
\* (SPI failure, interrupt, exception escaping main, normal return),
\* GPIO.cleanup() has been called at least once before the exit.
CleanupOnEveryExit == Exited => cleanupCalls >= 1

\* where the interrupt may be delivered: during the SPI check, during fetch,
\* parse or render, during either sleep, or while finally is running cleanup
InterruptPoints == {"check_spi"} \cup LoopPcs \cup {"finally_cleanup"}

\* C2: when a user interrupt stops the program, GPIO cleanup is performed
\* exactly once before the process exits, wherever the interrupt is delivered:
\* during the SPI check, during fetch, parse or render, during the 60 or 10
\* second sleep, or while main's finally block is already running cleanup.
CleanupExactlyOnceOnInterrupt ==
    (Exited /\ kiAt # {} /\ kiAt \subseteq InterruptPoints) => cleanupCalls = 1

\* a caught exception puts the loop in its cooldown, the raising step last
LoopAbsorbsErrorsState ==
    excStep # "none"
        => (pc = "sleep10" /\ exitCode = NoExit /\ iterTrace[Len(iterTrace)] = excStep)
\* a raising step goes to the cooldown, the cooldown to a fresh iteration,
\* and only an interrupt leaves the loop
LoopAbsorbsErrorsStep ==
    /\ (pc \in IterSteps /\ excStep' # "none")
          => (pc' = "sleep10" /\ Len(iterTrace') <= Len(iterTrace) + 1)
    /\ (pc = "sleep10" /\ pc' \in LoopPcs \ {"sleep10"})
          => (pc' = "fetch_probe" /\ lastSleep' = 10 /\ iterTrace' = <<>>)
    /\ (pc \in LoopPcs /\ pc' \notin LoopPcs)
          => (pc' = "ki_print" /\ cause = "none" /\ cause' = "interrupt")
\* C3: an exception of fetch, parse or display that is not a user interrupt
\* is caught inside the iteration: the iteration is abandoned, the 10 second
\* delay is taken and a new iteration starts with a fetch; the loop is left
\* only by a user interrupt.
LoopAbsorbsErrors == []LoopAbsorbsErrorsState /\ [][LoopAbsorbsErrorsStep]_vars

\* a display error was absorbed in an iteration that itself followed a cooldown
LoopAbsorbsErrorsWitness ==
    pc = "sleep10" /\ excStep = "render" /\ lastSleep = 10

\* C4: if check_spi fails, the process exits with code 1 and no probe, GET,
\* parse or display is ever performed; check_spi is called exactly once,
\* before the first iteration.
SpiFailureStopsEverything ==
    /\ spiResult = "fail" => (ioEver = {} /\ iterTrace = <<>> /\ pc \notin LoopPcs)
    /\ (spiResult = "fail" /\ Exited) => exitCode = 1
    /\ spiChecks <= 1
    /\ (pc \in LoopPcs \/ ioEver # {}) => (spiChecks = 1 /\ spiResult = "ok")

\* C4 as amended: if check_spi fails, no probe, GET, parse or display is ever
\* performed and the loop is never entered; the process exits with code 1
\* through sys.exit(1) unless a user interrupt is delivered after check_spi
\* has returned and before sys.exit(1) has run; check_spi is called exactly
\* once, before the first iteration.
SpiFailureStopsLoop ==
    /\ spiResult = "fail"
          => /\ ioEver = {} /\ iterTrace = <<>>
             /\ pc \in {"spi_exit", "mainki_print", "mainki_cleanup", "exited"}
             /\ pc # "spi_exit" => (cause = "spi" \/ "spi_exit" \in kiAt)
    /\ (spiResult = "fail" /\ Exited /\ "spi_exit" \notin kiAt)
          => (exitCode = 1 /\ cause = "spi" /\ kiAt = {})
    /\ spiChecks <= 1
    /\ (pc \in LoopPcs \/ ioEver # {}) => (spiChecks = 1 /\ spiResult = "ok")

\* the check failed, the one interrupt of the run came before sys.exit(1), and
\* the process has ended through the interrupt handler without a step of the
\* loop
SpiFailureStopsLoopWitness ==
    /\ spiResult = "fail" /\ spiChecks = 1
    /\ Exited /\ exitCode = 0 /\ cleanupCalls = 1
    /\ kiAt = {"spi_exit"}
    /\ ioEver = {}

\* C5: the exit code is 0 whenever the program ends because of a user
\* interrupt, wherever it is delivered, and 1 whenever it ends because of an
\* SPI failure or an exception that escapes main during startup.
ExitCodes ==
    Exited => /\ (cause = "interrupt" => exitCode = 0)
              /\ (cause \in {"spi", "exception"} => exitCode = 1)

\* the steps of an iteration, their arguments, and when the dwell is reached
IterationOrderState ==
    /\ iterTrace \in {<<>>, <<"fetch">>, <<"fetch", "parse">>, <<"fetch", "parse", "render">>}
    /\ Len(iterTrace) >= 2 => (data # Unset /\ ~IsExc(data) /\ parseArg = data)
    /\ Len(iterTrace) = 3 => (renderArg = scores /\ scores \in parse_ncaa_scores(parseArg))
    /\ (Len(iterTrace) = 3 /\ excStep = "none") => pc = "sleep60"
    /\ pc = "sleep60" => (Len(iterTrace) = 3 /\ excStep = "none")
\* the dwell leads to a fresh iteration, and an iteration starts only after
\* the SPI check or a delay
IterationOrderStep ==
    /\ (pc = "sleep60" /\ pc' \in LoopPcs \ {"sleep60"})
          => (pc' = "fetch_probe" /\ lastSleep' = 60 /\ iterTrace' = <<>>)
    /\ (pc' = "fetch_probe" /\ pc # "fetch_probe")
          => pc \in {"spi_print", "sleep60", "sleep10"}
\* C6: in every iteration the steps run in the order fetch, parse, render,
\* each at most once; render gets the value this iteration's parse returned,
\* parse gets the value this iteration's fetch returned; after an iteration
\* whose three steps succeed the 60 second delay precedes the next fetch.
IterationOrder == []IterationOrderState /\ [][IterationOrderStep]_vars

\* three steps succeeded on a feed with games and the loop is in its 60 second delay
IterationOrderWitness ==
    /\ pc = "sleep60"
    /\ lastSleep = 60
    /\ Len(renderArg.l) = 2
    /\ devOps = <<"Init", "clear", "text", "text", "text", "text", "ShowImage", "sleep2">>

\* C7: when the connectivity probe fails, fetch returns the canned dataset
\* (one game: Test Away 21, Test Home 14, FINAL) without raising and without
\* any HTTP GET; the probe is made exactly once per fetch call.
ProbeDownGivesFallback ==
    /\ probe = "down"
         => /\ pc # "fetch_get" /\ gets = 0 /\ got = NoGet /\ excStep # "fetch"
            /\ data.t = "dict"
            /\ DOMAIN data.d = {"games"}
            /\ data.d.games.t = "list"
            /\ Len(data.d.games.l) = 1
            /\ data.d.games.l[1] =
                 JDict([away_team |-> JStr("Test Away"), away_points |-> JInt(21),
                        home_team |-> JStr("Test Home"), home_points |-> JInt(14),
                        status |-> JStr("FINAL")])
    /\ iterTrace # <<>> => probes = 1
    /\ iterTrace = <<>> => probes = 0

ProbeDownGivesFallbackWitness ==
    probe = "down" /\ pc = "display" /\ probes = 1

\* the exceptions requests.get and raise_for_status raise
RequestExceptions == {"ConnectionError", "Timeout", "HTTPError"}

\* C8: when the probe succeeds, fetch issues exactly one HTTP GET and, on any
\* network error, timeout or non-2xx status, returns None; no exception from
\* the request leaves fetch.
FetchFailureIsNone ==
    (probe = "up" /\ got # NoGet)
        => /\ gets = 1
           /\ (got.kind \in {"ConnectionError", "Timeout"} \/ got.status \notin 200..299)
                => /\ excStep # "fetch" => data = PyNone
                   /\ excStep = "fetch" => excName \notin RequestExceptions

\* the raw data has no top-level 'games' key
LacksGames(v) == v.t # "dict" \/ "games" \notin DOMAIN v.d

\* C9: for a fetch failure (None) and for raw data without the top-level
\* 'games' key, parse returns an empty list and raises nothing; the value
\* passed to the renderer is always a list, never None.
ParseDegradesToEmpty ==
    /\ (Len(iterTrace) >= 2 /\ (parseArg = PyNone \/ LacksGames(parseArg)))
          => (excStep # "parse" /\ scores = JList(<<>>))
    /\ Len(iterTrace) = 3 => renderArg.t = "list"

\* a failed request reached the renderer as the empty list
ParseDegradesToEmptyWitness ==
    /\ Len(iterTrace) = 3
    /\ got.kind = "Timeout"
    /\ parseArg = PyNone
    /\ renderArg = JList(<<>>)

\* the raw data is a dict whose 'games' is a list
HasGamesList(v) == v.t = "dict" /\ "games" \in DOMAIN v.d /\ v.d.games.t = "list"

\* the value under a key, Absent when v is a dict without it
Absent == [t |-> "absent"]
Under(v, key) == IF v.t = "dict" /\ key \in DOMAIN v.d THEN v.d[key] ELSE Absent
IsDictOrAbsent(v) == v.t \in {"dict", "absent"}

\* a game record every field access of the parser can walk: the record is a
\* dict and 'teams', 'away', 'home' and 'status' are dicts where present
WellFormedGame(g) ==
    /\ g.t = "dict"
    /\ IsDictOrAbsent(Under(g, "teams"))
    /\ IsDictOrAbsent(Under(Under(g, "teams"), "away"))
    /\ IsDictOrAbsent(Under(Under(g, "teams"), "home"))
    /\ IsDictOrAbsent(Under(g, "status"))

OrDefault(v, dflt) == IF v = Absent THEN dflt ELSE v

\* the summary of a well-formed game
SummaryOf(g) ==
    JTuple(<< OrDefault(Under(Under(Under(g, "teams"), "away"), "name"), JStr("Unknown")),
              OrDefault(Under(Under(Under(g, "teams"), "away"), "score"), JInt(0)),
              OrDefault(Under(Under(Under(g, "teams"), "home"), "name"), JStr("Unknown")),
              OrDefault(Under(Under(Under(g, "teams"), "home"), "score"), JInt(0)),
              OrDefault(Under(Under(g, "status"), "type"), JStr("Unknown")) >>)

ExpectedScores(games) ==
    LET wf == SelectSeq(games, WellFormedGame)
    IN  [i \in 1..Len(wf) |-> SummaryOf(wf[i])]

\* C10: for a feed whose 'games' is a list, parse skips each malformed game
\* and keeps parsing the rest: the result has exactly one record per
\* well-formed game, in feed order, unsorted and with duplicates kept, and a
\* malformed record never aborts the cycle.
ParseSkipsMalformed ==
    (Len(iterTrace) >= 2 /\ HasGamesList(parseArg))
        => /\ excStep # "parse"
           /\ scores = JList(ExpectedScores(parseArg.d.games.l))

SummaryA == JTuple(<<JStr("Bruins"), JInt(3), JStr("Rangers"), JInt(2), JStr("final")>>)
SummaryB == JTuple(<<JStr("Massachusetts"), JInt(0), JStr("Northeastern"), JInt(5),
                     JStr("live")>>)

\* one malformed record among three well-formed ones, one of them a repeat
ParseSkipsMalformedWitness ==
    /\ pc = "display"
    /\ parseArg = JDict([games |-> JList(<<GameB, GameNotDict, GameA, GameB>>)])
    /\ scores = JList(<<SummaryB, SummaryA, SummaryB>>)

\* the device operations of this iteration's display call, as a set
Ops == {devOps[i] : i \in DOMAIN devOps}
\* the display call got past the drawing of the text (ShowImage was called)
TextDrawn == "ShowImage" \in Ops
\* the display call returned: the image was shown for its two seconds
Shown == "sleep2" \in Ops

NoGamesLine == [x |-> 10, y |-> 10, text |-> "No games found."]

\* C11: for an empty ScoreBoard the display draws exactly one text line, the
\* literal "No games found." at (10,10), and nothing else; a cycle whose fetch
\* returned None parses to the empty ScoreBoard, raises nothing in parse or in
\* the drawing, and ends with exactly that line on the image shown.
EmptyBoardShowsNoGames ==
    /\ (renderArg = JList(<<>>) /\ TextDrawn) => drawn = <<NoGamesLine>>
    /\ data = PyNone
          => /\ excStep \in {"none", "render"}
             /\ excStep = "render" => excName = "DeviceError"
             /\ Len(iterTrace) >= 2 => scores = JList(<<>>)
             /\ Shown => (renderArg = JList(<<>>) /\ drawn = <<NoGamesLine>>)

\* a timed-out request ended with the line on the display
EmptyBoardShowsNoGamesWitness ==
    /\ pc = "sleep60"
    /\ got.kind = "Timeout"
    /\ data = PyNone
    /\ Shown
    /\ drawn = <<NoGamesLine>>

\* C12: for a ScoreBoard of any length rendering stops once y exceeds
\* height - line_spacing (220): no text line is drawn at a y greater than 220,
\* and the games beyond are dropped without an error being raised.
RenderStopsAtCanvas ==
    TextDrawn
        => /\ \A i \in DOMAIN drawn : drawn[i].y <= height - line_spacing
           /\ excStep = "render" => excName = "DeviceError"

\* the raw data is a feed of exactly one game, well-formed and with str names
SingleGameFeed(v) ==
    /\ HasGamesList(v)
    /\ Len(v.d.games.l) = 1
    /\ WellFormedGame(v.d.games.l[1])
    /\ SummaryOf(v.d.games.l[1]).q[1].t = "str"
    /\ SummaryOf(v.d.games.l[1]).q[3].t = "str"

\* some drawn line contains the string
DrawnContains(sub) == \E i \in DOMAIN drawn : StrContains(drawn[i].text, sub)

\* the drawn text contains both names and both scores of the game
ShowsVerbatim(g) ==
    LET rec == SummaryOf(g).q
    IN  /\ DrawnContains(rec[1].s)
        /\ DrawnContains(PyStr(rec[2]))
        /\ DrawnContains(rec[3].s)
        /\ DrawnContains(PyStr(rec[4]))

\* C13 as stated: for any well-formed single-game record, with team names of
\* any length, parse followed by display draws text that contains both team
\* names and both scores verbatim.
RoundTripVerbatim ==
    (TextDrawn /\ SingleGameFeed(parseArg)) => ShowsVerbatim(parseArg.d.games.l[1])

\* both team names have at most ten characters
ShortNames(g) ==
    /\ Len(SummaryOf(g).q[1].s) <= NameCut
    /\ Len(SummaryOf(g).q[3].s) <= NameCut

\* C13 amended: for any well-formed single-game record whose team names have
\* at most 10 characters, parse followed by display draws text that contains
\* both team names and both scores verbatim; a longer name is drawn cut to its
\* first 10 characters.
RoundTripVerbatimShortNames ==
    (TextDrawn /\ SingleGameFeed(parseArg))
        => LET g == parseArg.d.games.l[1] IN
           /\ ShortNames(g) => ShowsVerbatim(g)
           /\ DrawnContains(SubSeq(SummaryOf(g).q[1].s, 1,
                                   Min(NameCut, Len(SummaryOf(g).q[1].s))))
           /\ DrawnContains(SubSeq(SummaryOf(g).q[3].s, 1,
                                   Min(NameCut, Len(SummaryOf(g).q[3].s))))

\* a game with names of exactly ten characters went through parse and display
RoundTripVerbatimWitness ==
    /\ pc = "sleep60"
    /\ parseArg = JDict([games |-> JList(<<GameC>>)])
    /\ drawn = << [x |-> 10, y |-> 10, text |-> "Providence 1"],
                  [x |-> 10, y |-> 30, text |-> "Quinnipiac 4"] >>

DemoRecord ==
    JTuple(<<JStr("Test Away"), JInt(21), JStr("Test Home"), JInt(14), JStr("FINAL")>>)

\* C14: in a cycle where the connectivity probe fails, parsing the fallback
\* dataset yields exactly one record ("Test Away", 21, "Test Home", 14,
\* "FINAL"), that ScoreBoard reaches the renderer, and the display shows the
\* fallback game rather than "No games found." or default values.
FallbackGameShown ==
    probe = "down"
        => /\ excStep # "parse"
           /\ Len(iterTrace) >= 2 => scores = JList(<<DemoRecord>>)
           /\ Len(iterTrace) = 3 => renderArg = JList(<<DemoRecord>>)
           /\ TextDrawn => drawn = << [x |-> 10, y |-> 10, text |-> "Test Away 21"],
                                      [x |-> 10, y |-> 30, text |-> "Test Home 14"] >>

\* the raw data is a feed of exactly one game
OneGameFeed(v) == HasGamesList(v) /\ Len(v.d.games.l) = 1

\* the fields the parser reads, Absent where the field or a dict above it is
\* absent
AwayOf(g) == Under(Under(g, "teams"), "away")
HomeOf(g) == Under(Under(g, "teams"), "home")
FieldsOf(g) ==
    << Under(AwayOf(g), "name"), Under(AwayOf(g), "score"),
       Under(HomeOf(g), "name"), Under(HomeOf(g), "score"),
       Under(Under(g, "status"), "type") >>
DefaultOf == << JStr("Unknown"), JInt(0), JStr("Unknown"), JInt(0), JStr("Unknown") >>

\* one of 'teams', 'away', 'home', 'name', 'score', 'status', 'type' is absent
\* from the game and the rest is as the parser expects it
SomeFieldAbsent(g) ==
    /\ WellFormedGame(g)
    /\ \/ Absent \in {Under(g, "teams"), AwayOf(g), HomeOf(g), Under(g, "status")}
       \/ \E k \in 1..5 : FieldsOf(g)[k] = Absent

\* C15: for a game record in which any one of the fields teams, away, home,
\* name, score, status, type is absent, parse still emits a record for that
\* game, with "Unknown" for an absent name or status, 0 for an absent score and
\* the value of the feed for every field that is present; the record is not
\* skipped and the parse does not fail.
ParseDefaultsAbsent ==
    (Len(iterTrace) >= 2 /\ OneGameFeed(parseArg) /\ SomeFieldAbsent(parseArg.d.games.l[1]))
        => /\ excStep # "parse"
           /\ scores.t = "list"
           /\ Len(scores.l) = 1
           /\ \A k \in 1..5 :
                scores.l[1].q[k] =
                    IF FieldsOf(parseArg.d.games.l[1])[k] = Absent
                    THEN DefaultOf[k]
                    ELSE FieldsOf(parseArg.d.games.l[1])[k]

\* a game without 'away' was parsed to a record with the defaults for the away
\* side
ParseDefaultsAbsentWitness ==
    /\ pc = "display"
    /\ parseArg = JDict([games |-> JList(<<GameNoAway>>)])
    /\ scores = JList(<<JTuple(<<JStr("Unknown"), JInt(0), JStr("Rangers"), JInt(2),
                                 JStr("final")>>)>>)

\* a name as the display shows it: whole up to ten characters, else its first
\* ten
First10(name) == IF Len(name) <= 10 THEN name ELSE SubSeq(name, 1, 10)

\* the line of a str name and its score at y
NameLine(y, name, score) ==
    [x |-> 10, y |-> y, text |-> First10(name) \o " " \o PyStr(score)]

\* the two lines drawn are those of the k-th drawn game (k from 0) for the
\* record rec: the positions, and for a name that is a str the text
PairOf(k, rec, away, home) ==
    /\ away.x = 10 /\ away.y = 10 + 40 * k
    /\ home.x = 10 /\ home.y = 10 + 40 * k + 20
    /\ rec[1].t = "str" => away = NameLine(10 + 40 * k, rec[1].s, rec[2])
    /\ rec[3].t = "str" => home = NameLine(10 + 40 * k + 20, rec[3].s, rec[4])

\* a record whose names are lists, of 2 and of 12 items
ListNameRecord ==
    JTuple(<<JList(<<JStr("a"), JStr("b")>>), JInt(3),
             JList([i \in 1..12 |-> JInt(i)]), JInt(2), JStr("final")>>)

\* C16: for each game that is drawn the display draws exactly two lines, first
\* "{away_team[:10]} {away_score}" and then "{home_team[:10]} {home_score}"
\* 20 pixels below it, each name cut to at most its first 10 characters; the
\* k-th drawn game (k from 0) has its away line at y = 10 + 40k.  Games are
\* drawn in ScoreBoard order, starting with the first.  A name that is a
\* list goes through the same [:10] and is drawn as the list of its first 10
\* items.
GameLayout ==
    (TextDrawn /\ renderArg # JList(<<>>))
        => /\ Len(drawn) % 2 = 0
           /\ Len(drawn) >= 2
           /\ Len(drawn) <= 2 * Len(renderArg.l)
           /\ \A k \in 0..((Len(drawn) \div 2) - 1) :
                PairOf(k, renderArg.l[k + 1].q, drawn[2 * k + 1], drawn[2 * k + 2])
           /\ renderArg = JList(<<ListNameRecord>>)
                => drawn = << [x |-> 10, y |-> 10, text |-> "['a', 'b'] 3"],
                              [x |-> 10, y |-> 30,
                               text |-> "[1, 2, 3, 4, 5, 6, 7, 8, 9, 10] 2"] >>

\* the third drawn game has long names: cut, at y = 90 and y = 110
GameLayoutWitness ==
    /\ pc = "sleep60"
    /\ Len(drawn) = 8
    /\ drawn[5] = [x |-> 10, y |-> 90, text |-> "Massachuse 0"]
    /\ drawn[6] = [x |-> 10, y |-> 110, text |-> "Northeaste 5"]

\* position of a call in display_scores_on_lcd
Rank(op) ==
    CASE op = "Init"      -> 1
      [] op = "clear"     -> 2
      [] op = "text"      -> 3
      [] op = "ShowImage" -> 4
      [] op = "sleep2"    -> 5
Count(op) == Cardinality({i \in DOMAIN devOps : devOps[i] = op})

\* the calls made so far are a beginning of Init, clear, text..., ShowImage,
\* sleep2: in that order, none but draw.text repeated
InDeviceOrder ==
    /\ devOps # <<>> => devOps[1] = "Init"
    /\ \A i \in 1..(Len(devOps) - 1) :
         \/ Rank(devOps[i + 1]) = Rank(devOps[i]) + 1
         \/ devOps[i] = "text" /\ devOps[i + 1] = "text"
    /\ Count("text") = Len(drawn)

\* C17: in every display call that returns normally the device operations
\* happen in the order Init, clear, ShowImage, 2-second dwell, each exactly
\* once, and ShowImage comes after all the text was drawn; if a step raises,
\* the exception is re-raised to the caller (the loop's handler, with the
\* process still running and its cleanup still ahead) and no later step of
\* that call has run.
DeviceProtocol ==
    /\ InDeviceOrder
    /\ pc = "sleep60"
          => /\ Count("Init") = 1 /\ Count("clear") = 1
             /\ Count("ShowImage") = 1 /\ Count("sleep2") = 1
             /\ Count("text") >= 1
             /\ devOps[Len(devOps)] = "sleep2"
             /\ excStep = "none"
    /\ excStep = "render"
          => /\ pc = "sleep10" /\ exitCode = NoExit /\ cleanupCalls = 0
             /\ ~Shown
             /\ excName = "DeviceError"
                   => (devOps = <<>> \/ devOps[Len(devOps)] \in DeviceSteps)
             /\ excName # "DeviceError" => ~TextDrawn
    /\ (Len(iterTrace) = 3 /\ ~Shown) => excStep = "render"

\* the display failed at ShowImage after drawing two lines, and the loop's
\* handler has the exception
DeviceProtocolWitness ==
    /\ pc = "sleep10"
    /\ excStep = "render"
    /\ devOps = <<"Init", "clear", "text", "text", "ShowImage">>
====
